---- MODULE Spec2Model ----
(***************************************************************************)
(* The catalog data layer of django_local_library (catalog/models.py):     *)
(* the six tables the models declare or reference, the create / save /     *)
(* delete operations the ORM gives each model with the on_delete policy of *)
(* every foreign key, and the derived helpers (__str__, display_genre,     *)
(* is_overdue, the choices labels, the default ordering of Author).        *)
(*                                                                         *)
(* The columns no helper and no foreign key reads (Author.fullname and the *)
(* two dates of an Author, Book.summary, Book.isbn) are left out of the    *)
(* rows.                                                                   *)
(*                                                                         *)
(* A table is a set of rows; a row is a record that carries its primary    *)
(* key in the field id, so that the uniqueness of a key is a property of   *)
(* the operations and not of the representation.  Text is a TLA+ string.   *)
(* A date is its proleptic ordinal (date.toordinal(), 1 for date.min).     *)
(***************************************************************************)
EXTENDS Integers, Sequences, FiniteSets, TLC

VARIABLES
    genre,          \* rows of Genre          [id, name]
    language,       \* rows of Language       [id, name]
    author,         \* rows of Author         [id, first_name, last_name]
    book,           \* rows of Book           [id, title, author, language]
    book_genre,     \* rows of the Book.genre through table [book, genre]
    user,           \* rows of auth.User      [id]
    bookinstance,   \* rows of BookInstance   [id, book, imprint, due_back, borrower, status, language]
    today,          \* what date.today() returns
    ret             \* the last operation and what it returned or raised

vars == <<genre, language, author, book, book_genre, user, bookinstance, today, ret>>

tables == <<genre, language, author, book, book_genre, user, bookinstance>>

-----------------------------------------------------------------------------
(* Bounds of the model. *)

\* The keys uuid.uuid4() draws from are 1..IdSpace.
IdSpace == 2

\* Rows the database holds at most, the tables of Language, Author, Book,
\* User and BookInstance together.
MaxRows == 5

\* Dates run from ordinal 1 to MaxDate.
MaxDate == 3

\* Primary keys of Author in the listing scenario.
MaxListed == 3

\* Primary keys of Genre in the display_genre scenario.
MaxGenres == 4

-----------------------------------------------------------------------------
(* Values. *)

\* Python's None / SQL NULL in a nullable column.  Primary keys and date
\* ordinals start at 1, so 0 is no key and no date.
None == 0

\* The exception an operation raised, as a returned value.
AttributeError == "AttributeError"
ValidationError == "ValidationError"
IntegrityError == "IntegrityError"

Dates == 1..MaxDate

\* bool(x) of a value of a nullable DateField or ForeignKey: None is false,
\* a datetime.date is always true.
Truthy(x) == x # None

Min(a, b) == IF a <= b THEN a ELSE b

pks(rows) == {r.id : r \in rows}

\* rows.get(pk=pk)
get(rows, pk) == CHOOSE r \in rows : r.id = pk

RowCount ==
    Cardinality(language) + Cardinality(author) + Cardinality(book)
    + Cardinality(user) + Cardinality(bookinstance)

-----------------------------------------------------------------------------
(* on_delete policies (django.db.models.deletion).  Each gives the         *)
(* referencing table after the rows with primary keys gone are deleted.    *)

CASCADE(rows, field, gone) == {r \in rows : r[field] \notin gone}

SET_NULL(rows, field, gone) ==
    {IF r[field] \in gone THEN [r EXCEPT ![field] = None] ELSE r : r \in rows}

\* A variant of Book.author: on_delete=DO_NOTHING.
Book_author_do_nothing(rows, gone) == rows

\* Each foreign key of models.py with its policy.
Book_author_on_delete(rows, gone) == CASCADE(rows, "author", gone)

Book_language_on_delete(rows, gone) == SET_NULL(rows, "language", gone)

\* Two variants of BookInstance.book: on_delete=CASCADE, and DO_NOTHING.
BookInstance_book_cascade(rows, gone) == CASCADE(rows, "book", gone)

BookInstance_book_do_nothing(rows, gone) == rows

BookInstance_book_on_delete(rows, gone) == SET_NULL(rows, "book", gone)

BookInstance_borrower_on_delete(rows, gone) == SET_NULL(rows, "borrower", gone)

BookInstance_language_on_delete(rows, gone) == SET_NULL(rows, "language", gone)

\* The rows of the ManyToManyField's auto-created through table go with
\* either end.
Book_genre_on_delete(rows, field, gone) == CASCADE(rows, field, gone)

-----------------------------------------------------------------------------
(* Field validation (Model.full_clean -> Field.clean) and the constraints  *)
(* the database keeps on a write.                                          *)

LOAN_STATUS ==
    << <<"m", "Maintenace">>,
       <<"o", "On loan">>,
       <<"a", "Available">>,
       <<"r", "Reserved">> >>

choice_values(choices) == {choices[k][1] : k \in DOMAIN choices}

\* BookInstance.status: CharField(max_length=1, choices=LOAN_STATUS,
\* blank=True, default="m").  clean_fields skips a blank=True field whose
\* value is empty; otherwise the value must be one of the choices and
\* short enough.
status_blank == TRUE

status_default == "m"

status_clean(v) ==
    IF status_blank /\ v = ""
    THEN TRUE
    ELSE v \in choice_values(LOAN_STATUS) /\ Len(v) <= 1

\* A required CharField (blank=False) rejects the empty string.
char_clean(v) == v # ""

\* A ForeignKey with blank=False rejects None, whatever null says.
required_clean(v) == v # None

Genre_clean(f) == char_clean(f.name)

Language_clean(f) == char_clean(f.name)

Author_clean(f) == char_clean(f.first_name) /\ char_clean(f.last_name)

Book_clean(f) ==
    char_clean(f.title) /\ required_clean(f.author) /\ required_clean(f.language)

BookInstance_clean(r) ==
    /\ required_clean(r.book)
    /\ char_clean(r.imprint)
    /\ status_clean(r.status)
    /\ required_clean(r.language)

\* A foreign key column holds NULL (where null=True) or the key of a row.
fk_ok(v, rows, null) == (null /\ v = None) \/ v \in pks(rows)

Book_constraints(f) ==
    fk_ok(f.author, author, FALSE) /\ fk_ok(f.language, language, TRUE)

BookInstance_constraints(r) ==
    /\ fk_ok(r.book, book, TRUE)
    /\ fk_ok(r.borrower, user, TRUE)
    /\ fk_ok(r.language, language, TRUE)

\* BookInstance(**f): the row a constructor call builds, with the default
\* of every field the call does not pass.
BookInstance_new(pk, f) ==
    [id |-> pk,
     book |-> f.book,
     imprint |-> f.imprint,
     due_back |-> f.due_back,
     borrower |-> f.borrower,
     status |-> IF "status" \in DOMAIN f THEN f.status ELSE status_default,
     language |-> f.language]

-----------------------------------------------------------------------------
(* Operations.  A write is Model.save(), after Model.full_clean() when     *)
(* clean is TRUE (the path of a ModelForm and of the admin) and alone when *)
(* it is FALSE (objects.create(), a bare save()).  A primary key pk of an  *)
(* AutoField is the unused key the database picks; the key of a            *)
(* BookInstance is whatever uuid.uuid4() draws.                            *)

\* ret is the call just made: the operation, the object or input it was
\* made on (None where the tables tell), and the value it returned or the
\* exception it raised.
Returns(op, value) ==
    ret' = [op |-> op, on |-> None, value |-> value, raised |-> FALSE]

Raises(op, exc) ==
    /\ ret' = [op |-> op, on |-> None, value |-> exc, raised |-> TRUE]
    /\ UNCHANGED <<tables, today>>

\* The attributes of row old after the assignments f, a record of some of
\* its fields.
assign(old, f) == [k \in DOMAIN old |-> IF k \in DOMAIN f THEN f[k] ELSE old[k]]

CreateGenre(pk, f, clean) ==
    /\ pk \notin pks(genre)
    /\ IF clean /\ ~Genre_clean(f)
       THEN Raises("save", ValidationError)
       ELSE /\ genre' = genre \cup {[id |-> pk, name |-> f.name]}
            /\ Returns("save", "ok")
            /\ UNCHANGED <<language, author, book, book_genre, user, bookinstance, today>>

CreateLanguage(pk, f, clean) ==
    /\ pk \notin pks(language)
    /\ RowCount < MaxRows
    /\ IF clean /\ ~Language_clean(f)
       THEN Raises("save", ValidationError)
       ELSE /\ language' = language \cup {[id |-> pk, name |-> f.name]}
            /\ Returns("save", "ok")
            /\ UNCHANGED <<genre, author, book, book_genre, user, bookinstance, today>>

CreateAuthor(pk, f, clean) ==
    /\ pk \notin pks(author)
    /\ RowCount < MaxRows
    /\ IF clean /\ ~Author_clean(f)
       THEN Raises("save", ValidationError)
       ELSE /\ author' = author \cup
                  {[id |-> pk, first_name |-> f.first_name, last_name |-> f.last_name]}
            /\ Returns("save", "ok")
            /\ UNCHANGED <<genre, language, book, book_genre, user, bookinstance, today>>

CreateUser(pk) ==
    /\ pk \notin pks(user)
    /\ RowCount < MaxRows
    /\ user' = user \cup {[id |-> pk]}
    /\ Returns("save", "ok")
    /\ UNCHANGED <<genre, language, author, book, book_genre, bookinstance, today>>

CreateBook(pk, f, clean) ==
    /\ pk \notin pks(book)
    /\ RowCount < MaxRows
    /\ IF clean /\ ~Book_clean(f)
       THEN Raises("save", ValidationError)
       ELSE IF ~Book_constraints(f)
       THEN Raises("save", IntegrityError)
       ELSE /\ book' = book \cup
                  {[id |-> pk, title |-> f.title, author |-> f.author,
                    language |-> f.language]}
            /\ Returns("save", "ok")
            /\ UNCHANGED <<genre, language, author, book_genre, user, bookinstance, today>>

SaveBook(pk, f, clean) ==
    /\ pk \in pks(book)
    /\ LET new == assign(get(book, pk), f) IN
       IF clean /\ ~Book_clean(new)
       THEN Raises("save", ValidationError)
       ELSE IF ~Book_constraints(new)
       THEN Raises("save", IntegrityError)
       ELSE /\ book' = {b \in book : b.id # pk} \cup {new}
            /\ Returns("save", "ok")
            /\ UNCHANGED <<genre, language, author, book_genre, user, bookinstance, today>>

\* book.genre.add(genre)
AddGenre(b, g) ==
    /\ b \in pks(book)
    /\ g \in pks(genre)
    /\ book_genre' = book_genre \cup {[book |-> b, genre |-> g]}
    /\ Returns("Book.genre.add", "ok")
    /\ UNCHANGED <<genre, language, author, book, user, bookinstance, today>>

\* primary_key=True: the column takes no second row with the key of one it
\* holds.  A new BookInstance is written with a single INSERT (its key has
\* a default), so a key uuid4 draws twice is an IntegrityError.
\* A variant: a key column without primary_key=True.
primary_key_unchecked(rows, pk) == TRUE

primary_key(rows, pk) == pk \notin pks(rows)

CreateBookInstance(pk, f, clean) ==
    /\ RowCount < MaxRows
    /\ LET new == BookInstance_new(pk, f) IN
       IF clean /\ ~BookInstance_clean(new)
       THEN Raises("save", ValidationError)
       ELSE IF ~BookInstance_constraints(new) \/ ~primary_key(bookinstance, pk)
       THEN Raises("save", IntegrityError)
       ELSE /\ bookinstance' = bookinstance \cup {new}
            /\ Returns("save", "ok")
            /\ UNCHANGED <<genre, language, author, book, book_genre, user, today>>

SaveBookInstance(pk, f, clean) ==
    /\ pk \in pks(bookinstance)
    /\ LET new == assign(get(bookinstance, pk), f) IN
       IF clean /\ ~BookInstance_clean(new)
       THEN Raises("save", ValidationError)
       ELSE IF ~BookInstance_constraints(new)
       THEN Raises("save", IntegrityError)
       ELSE /\ bookinstance' = {i \in bookinstance : i.id # pk} \cup {new}
            /\ Returns("save", "ok")
            /\ UNCHANGED <<genre, language, author, book, book_genre, user, today>>

\* Model.delete(): the Collector deletes the row, then follows every
\* foreign key that points at a deleted row with that key's policy.  It
\* returns the number of rows deleted.
DeleteGenre(pk) ==
    /\ pk \in pks(genre)
    /\ LET links == Book_genre_on_delete(book_genre, "genre", {pk}) IN
       /\ genre' = {g \in genre : g.id # pk}
       /\ book_genre' = links
       /\ Returns("Genre.delete", 1 + Cardinality(book_genre \ links))
    /\ UNCHANGED <<language, author, book, user, bookinstance, today>>

DeleteLanguage(pk) ==
    /\ pk \in pks(language)
    /\ language' = {l \in language : l.id # pk}
    /\ book' = Book_language_on_delete(book, {pk})
    /\ bookinstance' = BookInstance_language_on_delete(bookinstance, {pk})
    /\ Returns("Language.delete", 1)
    /\ UNCHANGED <<genre, author, book_genre, user, today>>

DeleteUser(pk) ==
    /\ pk \in pks(user)
    /\ user' = {u \in user : u.id # pk}
    /\ bookinstance' = BookInstance_borrower_on_delete(bookinstance, {pk})
    /\ Returns("User.delete", 1)
    /\ UNCHANGED <<genre, language, author, book, book_genre, today>>

DeleteBook(pk) ==
    /\ pk \in pks(book)
    /\ LET links == Book_genre_on_delete(book_genre, "book", {pk}) IN
       /\ book' = {b \in book : b.id # pk}
       /\ book_genre' = links
       /\ bookinstance' = BookInstance_book_on_delete(bookinstance, {pk})
       /\ Returns("Book.delete", 1 + Cardinality(book_genre \ links))
    /\ UNCHANGED <<genre, language, author, user, today>>

DeleteAuthor(pk) ==
    /\ pk \in pks(author)
    /\ LET kept == Book_author_on_delete(book, {pk})
           gone == pks(book) \ pks(kept)
           links == Book_genre_on_delete(book_genre, "book", gone)
       IN
       /\ author' = {a \in author : a.id # pk}
       /\ book' = kept
       /\ book_genre' = links
       /\ bookinstance' = BookInstance_book_on_delete(bookinstance, gone)
       /\ Returns("Author.delete", 1 + Cardinality(gone) + Cardinality(book_genre \ links))
    /\ UNCHANGED <<genre, language, user, today>>

DeleteBookInstance(pk) ==
    /\ pk \in pks(bookinstance)
    /\ bookinstance' = {i \in bookinstance : i.id # pk}
    /\ Returns("BookInstance.delete", 1)
    /\ UNCHANGED <<genre, language, author, book, book_genre, user, today>>

\* The clock moves on.
Tick ==
    /\ today < MaxDate
    /\ today' = today + 1
    /\ Returns("tick", "ok")
    /\ UNCHANGED tables

-----------------------------------------------------------------------------
(* Derived values: __str__, display_genre, is_overdue, the label of a      *)
(* choice, the default ordering.                                           *)

\* The sequences that hold each element of the set S once: the orders in
\* which a query without ORDER BY may yield the rows S.
RECURSIVE Perms(_)
Perms(S) ==
    IF S = {} THEN {<<>>}
    ELSE UNION {{<<x>> \o p : p \in Perms(S \ {x})} : x \in S}

\* seq[:n]
Slice(seq, n) == SubSeq(seq, 1, Min(n, Len(seq)))

\* sep.join(strs)
RECURSIVE join(_, _)
join(sep, strs) ==
    IF strs = <<>> THEN ""
    ELSE IF Len(strs) = 1 THEN strs[1]
    ELSE strs[1] \o sep \o join(sep, Tail(strs))

Genre__str__(self) == self.name

Language__str__(self) == self.name

Book__str__(self) == self.title

Author__str__(self) == self.last_name \o ", " \o self.first_name

\* The rows self.genre.all() ranges over, self a Book.
Book_genre_all(self) ==
    {g \in genre : [book |-> self.id, genre |-> g.id] \in book_genre}

\* A variant of display_genre: the slice [:4].
display_genre_first_four(yielded) ==
    LET first == Slice(yielded, 4) IN
    join(", ", [k \in 1..Len(first) |-> first[k].name])

\* display_genre over the genres in the order all() yields them.
display_genre(yielded) ==
    LET first == Slice(yielded, 3) IN
    join(", ", [k \in 1..Len(first) |-> first[k].name])

\* str(uuid): the key's hexadecimal text.  The model's keys are 1, 2, ...;
\* their text varies in the last digit.
HexDigits == <<"1", "2", "3", "4", "5", "6", "7", "8", "9", "a", "b", "c", "d", "e", "f">>

UUID__str__(u) == "00000000-0000-4000-8000-00000000000" \o HexDigits[u]

\* f'{self.id} ({self.book.title})': self.book is None when the column is
\* NULL, and None has no attribute title.
BookInstance__str__raises(self) == self.book = None

BookInstance__str__(self) ==
    UUID__str__(self.id) \o " (" \o get(book, self.book).title \o ")"

\* A variant of is_overdue: >= for >.
is_overdue_on_the_day(self) ==
    IF Truthy(self.due_back) /\ today >= self.due_back THEN TRUE ELSE FALSE

\* if self.due_back and date.today() > self.due_back: return True
\* return False
is_overdue(self) ==
    IF Truthy(self.due_back) /\ today > self.due_back THEN TRUE ELSE FALSE

\* get_status_display(): the label of the stored value in the choices, the
\* value itself when the choices do not hold it.
get_status_display(self) ==
    LET found == {k \in DOMAIN LOAN_STATUS : LOAN_STATUS[k][1] = self.status} IN
    IF found = {} THEN self.status ELSE LOAN_STATUS[CHOOSE k \in found : TRUE][2]

\* The code points of the names the scenarios use, for comparing text.
CodePoints(text) ==
    CASE text = "Anna" -> <<65, 110, 110, 97>>
      [] text = "Ben" -> <<66, 101, 110>>
      [] text = "Doe" -> <<68, 111, 101>>
      [] text = "Smith" -> <<83, 109, 105, 116, 104>>

\* a < b for sequences of code points.
RECURSIVE seq_less(_, _)
seq_less(a, b) ==
    IF b = <<>> THEN FALSE
    ELSE IF a = <<>> THEN TRUE
    ELSE IF Head(a) # Head(b) THEN Head(a) < Head(b)
    ELSE seq_less(Tail(a), Tail(b))

text_less(a, b) == seq_less(CodePoints(a), CodePoints(b))

\* A variant of the ordering: the two fields swapped.
Author_ordering_first_name_first == <<"first_name", "last_name">>

\* class Meta: ordering = ['last_name', 'first_name']
Author_ordering == <<"last_name", "first_name">>

\* Row a sorts before row b under ORDER BY fields.
RECURSIVE row_less(_, _, _)
row_less(a, b, fields) ==
    IF fields = <<>> THEN FALSE
    ELSE IF a[Head(fields)] # b[Head(fields)]
    THEN text_less(a[Head(fields)], b[Head(fields)])
    ELSE row_less(a, b, Tail(fields))

RECURSIVE insert_sorted(_, _, _)
insert_sorted(sorted, x, fields) ==
    IF sorted = <<>> THEN <<x>>
    ELSE IF row_less(x, Head(sorted), fields) THEN <<x>> \o sorted
    ELSE <<Head(sorted)>> \o insert_sorted(Tail(sorted), x, fields)

\* ORDER BY fields over the rows as stored.
RECURSIVE order_by(_, _)
order_by(stored, fields) ==
    IF stored = <<>> THEN <<>>
    ELSE insert_sorted(order_by(Tail(stored), fields), Head(stored), fields)

(* Calls that read.  They change no table. *)

Calls(op, on, value) ==
    /\ ret' = [op |-> op, on |-> on, value |-> value, raised |-> FALSE]
    /\ UNCHANGED <<tables, today>>

StrGenre(pk) ==
    /\ pk \in pks(genre)
    /\ Calls("Genre.__str__", get(genre, pk), Genre__str__(get(genre, pk)))

StrLanguage(pk) ==
    /\ pk \in pks(language)
    /\ Calls("Language.__str__", get(language, pk), Language__str__(get(language, pk)))

StrAuthor(pk) ==
    /\ pk \in pks(author)
    /\ Calls("Author.__str__", get(author, pk), Author__str__(get(author, pk)))

StrBook(pk) ==
    /\ pk \in pks(book)
    /\ Calls("Book.__str__", get(book, pk), Book__str__(get(book, pk)))

\* A variant of __str__ that returns a placeholder for a copy with no book.
StrBookInstance_placeholder(pk) ==
    /\ pk \in pks(bookinstance)
    /\ LET self == get(bookinstance, pk) IN
       IF BookInstance__str__raises(self)
       THEN Calls("BookInstance.__str__", self, UUID__str__(self.id) \o " (no book)")
       ELSE Calls("BookInstance.__str__", self, BookInstance__str__(self))

StrBookInstance(pk) ==
    /\ pk \in pks(bookinstance)
    /\ LET self == get(bookinstance, pk) IN
       IF BookInstance__str__raises(self)
       THEN /\ ret' = [op |-> "BookInstance.__str__", on |-> self,
                       value |-> AttributeError, raised |-> TRUE]
            /\ UNCHANGED <<tables, today>>
       ELSE Calls("BookInstance.__str__", self, BookInstance__str__(self))

IsOverdue(pk) ==
    /\ pk \in pks(bookinstance)
    /\ LET self == get(bookinstance, pk) IN
       Calls("BookInstance.is_overdue", self, is_overdue(self))

GetStatusDisplay(pk) ==
    /\ pk \in pks(bookinstance)
    /\ LET self == get(bookinstance, pk) IN
       Calls("BookInstance.get_status_display", self, get_status_display(self))

DisplayGenre(pk) ==
    /\ pk \in pks(book)
    /\ \E yielded \in Perms(Book_genre_all(get(book, pk))) :
           Calls("Book.display_genre", yielded, display_genre(yielded))

\* Author.objects.all()
ListAuthors ==
    \E stored \in Perms(author) :
        Calls("Author.objects.all", None, order_by(stored, Author_ordering))

-----------------------------------------------------------------------------
(* The catalog's life: rows of every model come and go.  The writes are   *)
(* bare saves: validation only ever refuses a write.                       *)

Init ==
    /\ genre = {}
    /\ language = {}
    /\ author = {}
    /\ book = {}
    /\ book_genre = {}
    /\ user = {}
    /\ bookinstance = {}
    /\ today = 1
    /\ ret = [op |-> "init", on |-> None, value |-> "ok", raised |-> FALSE]

\* The keys uuid4 draws from.
UUIDs == 1..IdSpace

\* The keys of the Authors and Books of this scenario.
Ids == {1, 2}

\* The keys of the one Language and the one User of this scenario.
LookupIds == {1}

BookFields == [title : {"Dune"}, author : Ids, language : {None} \cup LookupIds]

\* A copy on the shelf, and a copy lent to the user.
BookInstanceFields ==
    [book : Ids, imprint : {"1st"}, due_back : {None},
     borrower : {None}, language : {None} \cup LookupIds]
    \cup
    [book : Ids, imprint : {"1st"}, due_back : {1},
     borrower : LookupIds, language : {None} \cup LookupIds, status : {"o"}]

BookInstanceChanges == [book : Ids]

Next ==
    \/ \E pk \in LookupIds : CreateLanguage(pk, [name |-> "English"], TRUE)
    \/ \E pk \in Ids :
           CreateAuthor(pk, [first_name |-> "Anna", last_name |-> "Smith"], TRUE)
    \/ \E pk \in LookupIds : CreateUser(pk)
    \/ \E pk \in Ids, f \in BookFields : CreateBook(pk, f, FALSE)
    \/ \E pk \in Ids, f \in [author : Ids] : SaveBook(pk, f, FALSE)
    \/ \E pk \in UUIDs, f \in BookInstanceFields : CreateBookInstance(pk, f, FALSE)
    \/ \E pk \in UUIDs, f \in BookInstanceChanges : SaveBookInstance(pk, f, FALSE)
    \/ \E pk \in LookupIds : DeleteLanguage(pk)
    \/ \E pk \in LookupIds : DeleteUser(pk)
    \/ \E pk \in Ids : DeleteBook(pk)
    \/ \E pk \in Ids : DeleteAuthor(pk)
    \/ \E pk \in UUIDs : DeleteBookInstance(pk)

Spec == Init /\ [][Next]_vars

-----------------------------------------------------------------------------
(* The loan desk: the one copy of one book is checked in and out through   *)
(* the validated path while the days pass.                                 *)

\* Values a caller may try to store in status: the four tags, the empty
\* string, a letter that is no tag, and a text too long for the column.
StatusInputs == {"m", "o", "a", "r", "", "x", "mm"}

LoanFields ==
    [book : {1}, imprint : {"1st"}, due_back : {None}, borrower : {None},
     language : LookupIds]

LoanFieldsWithStatus ==
    [book : {1}, imprint : {"1st"}, due_back : {None}, borrower : {None},
     language : LookupIds, status : StatusInputs]

LoanChanges == [status : StatusInputs] \cup [due_back : {None} \cup Dates]

NextLoan ==
    \/ \E pk \in LookupIds : CreateLanguage(pk, [name |-> "English"], TRUE)
    \/ \E pk \in {1} :
           CreateAuthor(pk, [first_name |-> "Anna", last_name |-> "Smith"], TRUE)
    \/ \E pk \in {1}, l \in LookupIds :
           CreateBook(pk, [title |-> "Dune", author |-> 1, language |-> l], TRUE)
    \/ \E pk \in {1}, f \in LoanFields \cup LoanFieldsWithStatus :
           CreateBookInstance(pk, f, TRUE)
    \/ \E pk \in {1}, f \in LoanChanges : SaveBookInstance(pk, f, TRUE)
    \/ \E pk \in {1} : DeleteBookInstance(pk)
    \/ Tick
    \/ \E pk \in {1} : IsOverdue(pk)
    \/ \E pk \in {1} : GetStatusDisplay(pk)

SpecLoan == Init /\ [][NextLoan]_vars

-----------------------------------------------------------------------------
(* The shelf labels: every object is asked for its text.                   *)

NextStr ==
    \/ \E pk \in {1} : CreateGenre(pk, [name |-> "Fantasy"], TRUE)
    \/ \E pk \in LookupIds : CreateLanguage(pk, [name |-> "English"], TRUE)
    \/ \E pk \in {1}, fn \in {"Anna", "Ben"} :
           CreateAuthor(pk, [first_name |-> fn, last_name |-> "Smith"], TRUE)
    \/ \E pk \in Ids, t \in {"Dune", "Emma"} :
           CreateBook(pk, [title |-> t, author |-> 1, language |-> None], FALSE)
    \/ \E pk \in UUIDs, b \in Ids, d \in {None, 1} :
           CreateBookInstance(pk, [book |-> b, imprint |-> "1st", due_back |-> d,
                                   borrower |-> None, language |-> None], FALSE)
    \/ \E pk \in Ids : DeleteBook(pk)
    \/ \E pk \in {1} : DeleteAuthor(pk)
    \/ \E pk \in {1} : StrGenre(pk)
    \/ \E pk \in LookupIds : StrLanguage(pk)
    \/ \E pk \in {1} : StrAuthor(pk)
    \/ \E pk \in Ids : StrBook(pk)
    \/ \E pk \in UUIDs : StrBookInstance(pk)
    \/ \E pk \in UUIDs : IsOverdue(pk)

SpecStr == Init /\ [][NextStr]_vars

-----------------------------------------------------------------------------
(* The genres of one book.                                                 *)

GenreNames == <<"Fantasy", "Horror", "Drama", "Poetry">>

GenreIds == 1..MaxGenres

GenreName(pk) == GenreNames[((pk - 1) % Len(GenreNames)) + 1]

NextGenre ==
    \/ \E pk \in {1} :
           CreateAuthor(pk, [first_name |-> "Anna", last_name |-> "Smith"], TRUE)
    \/ \E pk \in {1} :
           CreateBook(pk, [title |-> "Dune", author |-> 1, language |-> None], FALSE)
    \/ \E pk \in GenreIds : CreateGenre(pk, [name |-> GenreName(pk)], TRUE)
    \/ \E g \in GenreIds : AddGenre(1, g)
    \/ \E pk \in GenreIds : DeleteGenre(pk)
    \/ \E pk \in {1} : DeleteBook(pk)
    \/ \E pk \in {1} : DisplayGenre(pk)

SpecGenre == Init /\ [][NextGenre]_vars

-----------------------------------------------------------------------------
(* The list of authors.                                                    *)

ListedIds == 1..MaxListed

AuthorFields == [first_name : {"Anna", "Ben"}, last_name : {"Doe", "Smith"}]

NextAuthor ==
    \/ \E pk \in ListedIds, f \in AuthorFields : CreateAuthor(pk, f, TRUE)
    \/ \E pk \in ListedIds : DeleteAuthor(pk)
    \/ ListAuthors

SpecAuthor == Init /\ [][NextAuthor]_vars

-----------------------------------------------------------------------------
(* Claims. *)

\* The stored values of the four tags Maintenance, OnLoan, Available and
\* Reserved.
Tags == {"m", "o", "a", "r"}

\* C1: is_overdue returns true if and only if due_back is set and today is
\* strictly later than due_back; it is false when due_back is unset, when
\* today equals due_back and when today is earlier than due_back.
C1_OverdueIffStrictlyLater ==
    ret.op = "BookInstance.is_overdue" =>
        LET due == ret.on.due_back IN
        /\ ret.value = (due \in Dates /\ today > due)
        /\ due = None => ret.value = FALSE
        /\ due \in Dates /\ today = due => ret.value = FALSE
        /\ due \in Dates /\ today < due => ret.value = FALSE
        /\ due \in Dates /\ today > due => ret.value = TRUE

C1_Witness ==
    /\ ret.op = "BookInstance.is_overdue"
    /\ ret.on.due_back \in Dates
    /\ today > ret.on.due_back
    /\ ret.value = TRUE

\* C2: deleting an Author deletes every Book whose author is that Author
\* and no other Book: after the delete no Book by the deleted Author
\* remains and every Book by a different Author is still present.
C2_AuthorDeleteCascades ==
    [][ret'.op = "Author.delete" =>
           LET gone == pks(author) \ pks(author') IN
           /\ Cardinality(gone) = 1
           /\ \A b \in book' : b.author \notin gone
           /\ \A b \in book : b.author \notin gone => b \in book'
           /\ book' \subseteq book]_vars

C2_Witness ==
    /\ ret.op = "Author.delete"
    /\ ret.value >= 2
    /\ book # {}

\* The table after holds the rows of the table rows, each with its key and
\* with field set to None where it pointed at a key of gone, and with
\* every other field as it was.
Cleared(rows, after, field, gone) ==
    /\ pks(after) = pks(rows)
    /\ Cardinality(after) = Cardinality(rows)
    /\ \A r \in rows :
           \E q \in after :
               /\ q.id = r.id
               /\ q[field] = (IF r[field] \in gone THEN None ELSE r[field])
               /\ \A k \in DOMAIN r \ {field} : q[k] = r[k]

\* C3: deleting a Book leaves every BookInstance present and sets book to
\* null on exactly the instances that referenced it; deleting a Language
\* leaves every Book and BookInstance present and sets language to null on
\* exactly those that referenced it; every other field of every surviving
\* record is unchanged.
C3_ClearOnDeleteKeepsRows ==
    [][/\ ret'.op = "Book.delete" =>
              /\ Cardinality(pks(book) \ pks(book')) = 1
              /\ Cleared(bookinstance, bookinstance', "book", pks(book) \ pks(book'))
       /\ ret'.op = "Language.delete" =>
              LET gone == pks(language) \ pks(language') IN
              /\ Cardinality(gone) = 1
              /\ Cleared(book, book', "language", gone)
              /\ Cleared(bookinstance, bookinstance', "language", gone)]_vars

C3_Witness ==
    /\ ret.op = "Book.delete"
    /\ \E i \in bookinstance : i.book = None
    /\ \E i \in bookinstance : i.book # None

\* No two rows carry the same key.
UniqueIds(rows) == \A i, j \in rows : i.id = j.id => i = j

\* C5: the identifier of a BookInstance is assigned at creation and never
\* changes afterwards, and after any sequence of create, update and delete
\* operations no two existing BookInstances share an identifier.  (A step
\* that changed the key of a row would take one key out of the table and
\* put another in: no step does both.)
C5_IdentifierUniqueAndFixed ==
    [][/\ UniqueIds(bookinstance')
       /\ Cardinality((pks(bookinstance) \ pks(bookinstance'))
                      \cup (pks(bookinstance') \ pks(bookinstance))) <= 1]_vars

C5_Witness ==
    /\ Cardinality(bookinstance) >= 2
    /\ ret.op = "save"
    /\ ret.raised
    /\ ret.value = IntegrityError

\* Every foreign key column holds NULL or the key of a row that exists.
ReferentialIntegrity ==
    /\ \A b \in book :
           /\ b.author \in pks(author)
           /\ b.language = None \/ b.language \in pks(language)
    /\ \A i \in bookinstance :
           /\ i.book = None \/ i.book \in pks(book)
           /\ i.language = None \/ i.language \in pks(language)
           /\ i.borrower = None \/ i.borrower \in pks(user)

\* C10: after any sequence of creates and deletes every Book references an
\* existing Author and every non-null book, language or borrower reference
\* of a Book or BookInstance points to an existing record; deleting an
\* Author whose Books have BookInstances deletes no BookInstance and leaves
\* those instances with book null.
C10_ReferencesResolve ==
    [][/\ ReferentialIntegrity'
       /\ ret'.op = "Author.delete" =>
              LET gone == pks(author) \ pks(author')
                  orphaned == {b.id : b \in {x \in book : x.author \in gone}}
              IN
              /\ pks(bookinstance') = pks(bookinstance)
              /\ \A i \in bookinstance' :
                     (\E o \in bookinstance : o.id = i.id /\ o.book \in orphaned)
                         => i.book = None]_vars

C10_Witness ==
    /\ ret.op = "Author.delete"
    /\ ret.value >= 2
    /\ \E i \in bookinstance : i.book = None

\* C4: the status of every BookInstance is one of the four tags: a newly
\* created instance has status Maintenance, and an attempt to store a value
\* outside the four tags, the empty value included, is rejected by
\* validation.
C4_StatusAlwaysATag == \A i \in bookinstance : i.status \in Tags

\* C6: display_genre returns the names of the first min(3, n) of the Book's
\* n genres, in the order the collection yields them, joined by ", ": with
\* more than 3 genres exactly 3 names appear, with none the empty string.
C6_FirstThreeGenres ==
    ret.op = "Book.display_genre" =>
        LET y == ret.on
            n == Len(y)
        IN
        /\ n = 0 => ret.value = ""
        /\ n = 1 => ret.value = y[1].name
        /\ n = 2 => ret.value = y[1].name \o ", " \o y[2].name
        /\ n >= 3 => ret.value = y[1].name \o ", " \o y[2].name \o ", " \o y[3].name

C6_Witness ==
    /\ ret.op = "Book.display_genre"
    /\ Len(ret.on) > 3
    /\ ret.value = ret.on[1].name \o ", " \o ret.on[2].name \o ", " \o ret.on[3].name

\* C7: the text of a BookInstance is "{id} ({book.title})" when book is set
\* and an error when book is null; the texts of Genre, Language, Author and
\* Book and the overdue predicate never fail.
C7_OnlyInstanceTextFails ==
    /\ ret.op = "BookInstance.__str__" =>
           IF ret.on.book = None
           THEN ret.raised
           ELSE /\ ~ret.raised
                /\ \E b \in book :
                       /\ b.id = ret.on.book
                       /\ ret.value = UUID__str__(ret.on.id) \o " (" \o b.title \o ")"
    /\ ret.op \in {"Genre.__str__", "Language.__str__"} =>
           ~ret.raised /\ ret.value = ret.on.name
    /\ ret.op = "Author.__str__" =>
           ~ret.raised /\ ret.value = ret.on.last_name \o ", " \o ret.on.first_name
    /\ ret.op = "Book.__str__" => ~ret.raised /\ ret.value = ret.on.title
    /\ ret.op = "BookInstance.is_overdue" => ~ret.raised /\ ret.value \in BOOLEAN

C7_Witness ==
    /\ ret.op = "BookInstance.__str__"
    /\ ret.on.book = None
    /\ ret.raised
    /\ ret.value = AttributeError

\* (a.last_name, a.first_name) < (b.last_name, b.first_name)
PairLess(a, b) ==
    \/ text_less(a.last_name, b.last_name)
    \/ a.last_name = b.last_name /\ text_less(a.first_name, b.first_name)

\* C8: the default listing of Authors is sorted ascending by last_name and,
\* among equal last_names, ascending by first_name: no Author in the listing
\* is followed by one with a smaller (last_name, first_name) pair.
C8_AuthorsSorted ==
    ret.op = "Author.objects.all" =>
        LET listing == ret.value IN
        /\ Len(listing) = Cardinality(author)
        /\ {listing[k] : k \in DOMAIN listing} = author
        /\ \A j, k \in DOMAIN listing : j < k => ~PairLess(listing[k], listing[j])

C8_Witness ==
    /\ ret.op = "Author.objects.all"
    /\ Len(ret.value) = 3
    /\ ret.value[1].last_name = "Doe"
    /\ ret.value[2].last_name = "Smith" /\ ret.value[2].first_name = "Anna"
    /\ ret.value[3].last_name = "Smith" /\ ret.value[3].first_name = "Ben"

\* The label the specification's table gives each tag.
SpecLabel(tag) ==
    CASE tag = "m" -> "Maintenance"
      [] tag = "o" -> "On loan"
      [] tag = "a" -> "Available"
      [] tag = "r" -> "Reserved"

\* C9: the status enumeration is a closed set of four tags whose labels are
\* Maintenance -> "Maintenance", OnLoan -> "On loan", Available ->
\* "Available", Reserved -> "Reserved"; the label shown for each stored
\* status equals the one in this table.
C9_LabelsAsTabled ==
    /\ choice_values(LOAN_STATUS) = Tags
    /\ ret.op = "BookInstance.get_status_display" /\ ret.on.status \in Tags =>
           ret.value = SpecLabel(ret.on.status)

====
